---- MODULE Spec2Model ----
(***************************************************************************)
(* Transition<T> of iced_anim (src/iced_anim/src/transition.rs) as a state *)
(* machine, together with the Easing configuration it is seeded from      *)
(* (src/iced_anim/src/transition/easing.rs).                              *)
(*                                                                         *)
(* Numbers.  T is f32, restricted to the integers 0..MaxVal.  Time is     *)
(* counted in units of 250 ms, so that DEFAULT_DURATION (500 ms) is 2.    *)
(* A progress p in [0,1] is stored as the integer p * One (quarters).     *)
(* With durations of 0, 2 or 4 units every quotient elapsed / duration is *)
(* a whole number of quarters, and a Tick is only taken with a timestamp  *)
(* for which the interpolated value is a whole number, so every number    *)
(* of the model is the exact f32 the program computes.  The quotient      *)
(* 0.0 / 0.0 of a tick with a zero duration is NaN: a progress and a      *)
(* value can hold it (NotANumber), and whether they do is set by the      *)
(* clamp of Progress::update, which differs from build to build (clamp).  *)
(***************************************************************************)
EXTENDS Integers, Sequences, FiniteSets, TLC

\* ------------------------------------------------------------------ bounds
MaxVal == 4
MaxTime == 3

Values == 0..MaxVal
Times == 0..MaxTime

\* ------------------------------------------------------- program constants
DEFAULT_DURATION == 2
Durations == {0, DEFAULT_DURATION, 2 * DEFAULT_DURATION}
One == 4

VARIABLES
    initial,      \* Transition::initial
    value,        \* Transition::value
    target,       \* Transition::target
    curve,        \* Transition::curve
    duration,     \* Transition::duration
    progress,     \* Transition::progress, [dir, p]
    last_update,  \* Transition::last_update
    reversible,   \* Easing::reversible of the easing the transition was built from
    clamp,        \* what the clamp of Progress::update makes of a NaN in this build
    clock,        \* what Instant::now() returns
    op,           \* the operation that produced this state, with its argument
    pre,          \* what the claims need of the state before that operation
    leg,          \* history of the run since the last Target event
    fresh,        \* whether only Tick, Settle and Target(v) have followed new(v)
    an,           \* the last Animate operation of the highlighter types
    th,           \* the highlighter Theme in use and the HIGHLIGHTER_THEME cell
    ez,           \* an Easing under construction
    hl            \* a Highlighter: its caches and current line

tvars == <<initial, value, target, curve, duration, progress, last_update>>
transitionVars == <<initial, value, target, curve, duration, progress,
                    last_update, reversible, clamp, clock, op, pre, leg,
                    fresh>>
otherVars == <<an, th, ez, hl>>
vars == <<initial, value, target, curve, duration, progress, last_update,
          reversible, clamp, clock, op, pre, leg, fresh, an, th, ez, hl>>

Min(a, b) == IF a < b THEN a ELSE b

\* ---------------------------------------------------------------- Progress
Forward(p) == [dir |-> "Forward", p |-> p]
Reverse(p) == [dir |-> "Reverse", p |-> p]

ProgressDefault == Forward(One)

ProgressValue(pr) == pr.p

ProgressIsComplete(pr) ==
    IF pr.dir = "Forward" THEN pr.p = One ELSE pr.p = 0

ProgressReverse(pr) ==
    IF pr.dir = "Forward" THEN Reverse(pr.p) ELSE Forward(pr.p)

ProgressSettle(pr) ==
    IF pr.dir = "Forward" THEN Forward(One) ELSE Reverse(0)

\* the f32 NaN as it is stored in a progress or in a value: a number that
\* equals no number of the model and is not in [0, 1]
NotANumber == 0 - 1

\* an f32 fraction: a whole number of quarters, +Inf (x / 0.0 with x > 0) or
\* NaN (0.0 / 0.0)
Fin(n) == [kind |-> "fin", n |-> n]
Inf == [kind |-> "inf", n |-> 0]
NaN == [kind |-> "nan", n |-> 0]

\* What the clamp to [0, 1] of Progress::update makes of a NaN is set by the
\* build: f32::clamp returns the NaN, max(0.0).min(1.0) the lower bound,
\* min(1.0).max(0.0) the upper bound, and min(1.0) for Forward with
\* max(0.0) for Reverse the bound that the progress travels to.  A build
\* shows which one it is when it first clamps a NaN.
NaNClamps == {"nan", "lower", "upper", "travel"}
Unseen == "unseen"

\* the sum p + delta (Forward) or p - delta (Reverse) is NaN
SumIsNaN(pr, delta) == pr.p = NotANumber \/ delta.kind = "nan"

\* Progress::update(delta) in a build whose clamp answers a NaN by `how`:
\* the sum is clamped to [0, 1]
ProgressUpdate(pr, delta, how) ==
    CASE SumIsNaN(pr, delta) ->
            [pr EXCEPT !.p = CASE how = "nan" -> NotANumber
                               [] how = "lower" -> 0
                               [] how = "upper" -> One
                               [] OTHER -> IF pr.dir = "Forward" THEN One ELSE 0]
      [] delta.kind = "inf" ->
            IF pr.dir = "Forward" THEN Forward(One) ELSE Reverse(0)
      [] OTHER ->
            IF pr.dir = "Forward"
            THEN Forward(IF pr.p + delta.n > One THEN One ELSE pr.p + delta.n)
            ELSE Reverse(IF pr.p - delta.n < 0 THEN 0 ELSE pr.p - delta.n)

\* ------------------------------------------------------------------- Curve
Curves == {"Linear"}

CurveValue(c, p) == p

\* ----------------------------------------------------------- Animate (f32)
\* f is a number of quarters.  The blend of a NaN is NaN; a blend of numbers
\* is a whole number where LerpExact holds, and a number of quarters
\* num / den elsewhere.
LerpExact(start, end, f) ==
    \/ start = NotANumber
    \/ f = NotANumber
    \/ ((end - start) * f) % One = 0

Lerp(start, end, f) ==
    IF start = NotANumber \/ f = NotANumber
    THEN NotANumber
    ELSE IF LerpExact(start, end, f)
    THEN start + ((end - start) * f) \div One
    ELSE [num |-> start * One + (end - start) * f, den |-> One]

\* ------------------------------------------------------------------ Easing
\* <Easing as Default>::default in a build whose Curve::default() is cdflt
\* and whose crate::animated::DEFAULT_DURATION is dflt
EasingDefault(cdflt, dflt) ==
    [curve |-> cdflt, duration |-> dflt, reversible |-> FALSE]

\* with_duration that also clears the reversible flag
EasingWithDurationReset(e, d) == [e EXCEPT !.duration = d, !.reversible = FALSE]

EasingWithDuration(e, d) == [e EXCEPT !.duration = d]

EasingReversible(e, r) == [e EXCEPT !.reversible = r]

Easings ==
    {EasingReversible(EasingWithDuration(EasingDefault(c, DEFAULT_DURATION), d), r) :
        c \in Curves, d \in Durations, r \in BOOLEAN}

\* -------------------------------------------------------------- Transition
IsAnimating == ~ProgressIsComplete(progress)

\* Transition::target: the logical target
TargetOf(pr, ini, tgt) == IF pr.dir = "Forward" THEN tgt ELSE ini

LogicalTarget == TargetOf(progress, initial, target)

NoLeg == [kind |-> "none"]

\* a leg that is no longer followed: something other than Tick events with
\* non-decreasing timestamps has happened since the Target event
VoidLeg == [kind |-> "void"]

Tracked == leg.kind \in {"fwd", "rev", "same"}

Snapshot == [animating |-> IsAnimating, p |-> progress.p]

\* new(v) has been followed by something other than Tick, Settle, Target(v)
NotFresh == [ok |-> FALSE, v |-> 0]

\* nothing has been done yet with the highlighter types, the Theme, the Easing
AnNone == [kind |-> "none"]
ThNone == [kind |-> "none"]
EzNone == [kind |-> "none"]
HlNone == [kind |-> "none"]

OthersIdle == an = AnNone /\ th = ThNone /\ ez = EzNone /\ hl = HlNone

\* Transition::new(v), then with_curve / with_duration from an Easing
Init ==
    /\ \E v \in Values, e \in Easings :
        /\ initial = v
        /\ target = v
        /\ value = v
        /\ curve = e.curve
        /\ duration = e.duration
        /\ reversible = e.reversible
        /\ fresh = [ok |-> TRUE, v |-> v]
    /\ clamp = Unseen
    /\ OthersIdle
    /\ progress = ProgressDefault
    /\ clock = 0
    /\ last_update = clock
    /\ op = [name |-> "new", arg |-> 0]
    /\ pre = [animating |-> FALSE, p |-> One]
    /\ leg = NoLeg

\* Instant::duration_since: saturates at zero when `now` is the earlier one
DurationSince(now, earlier) == IF now >= earlier THEN now - earlier ELSE 0

\* delta.as_secs_f32() / self.duration.as_secs_f32(), in quarters
DeltaFraction(dt, d) ==
    IF d = 0
    THEN IF dt = 0 THEN NaN ELSE Inf
    ELSE Fin((dt * One) \div d)

\* (variant) tick without its early return
TickNeverReturnsEarly == FALSE

\* the early return of tick
TickReturnsEarly == ~IsAnimating

\* (variant) tick blends towards the logical target instead of the target field
TickValueLogicalTarget(pr, ini, tgt) ==
    IF ProgressIsComplete(pr)
    THEN TargetOf(pr, ini, tgt)
    ELSE Lerp(ini, TargetOf(pr, ini, tgt), CurveValue(curve, ProgressValue(pr)))

\* the value tick assigns once the progress pr has been updated
TickValue(pr, ini, tgt) ==
    IF ProgressIsComplete(pr)
    THEN TargetOf(pr, ini, tgt)
    ELSE Lerp(ini, tgt, CurveValue(curve, ProgressValue(pr)))

\* (variant) interrupt leaves the timestamp of the last tick in place
InterruptLastUpdateKept == last_update

\* the timestamp tick leaves in last_update
TickLastUpdate(now) == now

\* (variant) tick measures the elapsed time after it has stored `now`
TickProgressAfterStore(now, how) ==
    ProgressUpdate(progress, DeltaFraction(DurationSince(now, now), duration),
                   how)

\* the progress after progress.update(delta / duration)
TickProgress(now, how) ==
    ProgressUpdate(progress,
                   DeltaFraction(DurationSince(now, last_update), duration),
                   how)

\* the builds that the run so far can be of, when tick(now) clamps a NaN
TickClamps(now) ==
    IF clamp = Unseen
       /\ SumIsNaN(progress,
                   DeltaFraction(DurationSince(now, last_update), duration))
    THEN NaNClamps
    ELSE {clamp}

\* the history of the leg after a tick at `now` that measured dt
LegAfterTick(now, dt, pr, val) ==
    IF ~Tracked
    THEN leg
    ELSE IF now < leg.last
    THEN VoidLeg
    ELSE [leg EXCEPT !.last = now,
                     !.ticked = TRUE,
                     !.seen = IF leg.kind = "fwd"
                              THEN (pr.p :> val) @@ leg.seen
                              ELSE leg.seen]

\* Transition::tick(now)
Tick(now) ==
    /\ now \in Times
    /\ now <= clock
    /\ IF TickReturnsEarly
       THEN /\ UNCHANGED <<tvars, clamp>>
            /\ leg' = LegAfterTick(now, 0, progress, value)
       ELSE \E how \in TickClamps(now) :
            LET dt == DurationSince(now, last_update)
                pr == TickProgress(now, how)
            IN  /\ clamp' = how
                /\ ProgressIsComplete(pr)
                   \/ LerpExact(initial, target, CurveValue(curve, ProgressValue(pr)))
                /\ last_update' = TickLastUpdate(now)
                /\ progress' = pr
                /\ value' = TickValue(pr, initial, target)
                /\ leg' = LegAfterTick(now, dt, pr, TickValue(pr, initial, target))
                /\ UNCHANGED <<initial, target, curve, duration>>
    /\ op' = [name |-> "tick", arg |-> now]
    /\ pre' = Snapshot
    /\ UNCHANGED <<reversible, clock, fresh, otherVars>>

\* the value settle assigns for the settled progress pr
SettleValue(pr) == IF pr.dir = "Forward" THEN target ELSE initial

\* Transition::settle
Settle ==
    /\ progress' = ProgressSettle(progress)
    /\ value' = SettleValue(ProgressSettle(progress))
    /\ leg' = IF Tracked THEN VoidLeg ELSE leg
    /\ op' = [name |-> "settle", arg |-> 0]
    /\ pre' = Snapshot
    /\ UNCHANGED <<initial, target, curve, duration, last_update, reversible, clamp,
                   clock, fresh, otherVars>>

\* Transition::reverse
ReverseOp ==
    /\ progress' = ProgressReverse(progress)
    /\ leg' = IF Tracked THEN VoidLeg ELSE leg
    /\ op' = [name |-> "reverse", arg |-> 0]
    /\ pre' = Snapshot
    /\ fresh' = NotFresh
    /\ UNCHANGED <<initial, value, target, curve, duration, last_update,
                   reversible, clamp, clock, otherVars>>

\* Transition::set_duration
SetDuration(d) ==
    /\ d \in Nat
    /\ d # duration
    /\ duration' = d
    /\ leg' = IF Tracked THEN VoidLeg ELSE leg
    /\ op' = [name |-> "set_duration", arg |-> d]
    /\ pre' = Snapshot
    /\ fresh' = NotFresh
    /\ UNCHANGED <<initial, value, target, curve, progress, last_update,
                   reversible, clamp, clock, otherVars>>

\* the condition under which interrupt reverses instead of restarting
IsInitialTarget(t) ==
    IF progress.dir = "Forward" THEN t = initial ELSE t = target

\* (variant) interrupt never takes the reversing branch
InterruptNeverReverses(t) == FALSE

InterruptReverses(t) == IsInitialTarget(t) /\ ~ProgressIsComplete(progress)

\* (variant) a restart keeps the old initial value
InterruptInitialKept == initial

\* the initial value of a restarted transition
InterruptInitial == value

\* (variant) every target counts as a changed target
InterruptTargetAlwaysChanged(t) == TRUE

\* the test `&target != self.target()` of interrupt
InterruptTargetChanged(t) == t # LogicalTarget

InterruptRestarts(t) == ~InterruptReverses(t) /\ InterruptTargetChanged(t)

\* the timestamp interrupt leaves in last_update
InterruptLastUpdate == clock

\* the history that starts with interrupt(t)
LegAfterInterrupt(t) ==
    LET base == [at |-> clock, last |-> clock, v0 |-> value, v1 |-> t,
                 ticked |-> FALSE, fromRest |-> ~IsAnimating,
                 idle |-> last_update < clock]
    IN  IF InterruptReverses(t)
        THEN base @@ [kind |-> "rev",
                      fwd |-> IF leg.kind = "fwd" /\ leg.fromRest
                              THEN [ok |-> TRUE, e |-> leg.last - leg.at,
                                    v0 |-> leg.v0, v1 |-> leg.v1]
                              ELSE [ok |-> FALSE, e |-> 0, v0 |-> 0, v1 |-> 0],
                      seen |-> IF leg.kind = "fwd" /\ leg.fromRest
                               THEN leg.seen ELSE <<>>]
        ELSE IF InterruptRestarts(t)
        THEN base @@ [kind |-> "fwd",
                      fwd |-> [ok |-> FALSE, e |-> 0, v0 |-> 0, v1 |-> 0],
                      seen |-> (0 :> value)]
        ELSE base @@ [kind |-> "same",
                      fwd |-> [ok |-> FALSE, e |-> 0, v0 |-> 0, v1 |-> 0],
                      seen |-> <<>>]

\* Transition::interrupt(t)
Interrupt(t) ==
    /\ t \in Values
    /\ IF InterruptReverses(t)
       THEN /\ progress' = ProgressReverse(progress)
            /\ UNCHANGED <<initial, target>>
       ELSE IF InterruptTargetChanged(t)
       THEN /\ progress' = Forward(0)
            /\ initial' = InterruptInitial
            /\ target' = t
       ELSE UNCHANGED <<progress, initial, target>>
    /\ last_update' = InterruptLastUpdate
    /\ leg' = LegAfterInterrupt(t)
    /\ op' = [name |-> "target", arg |-> t]
    /\ pre' = Snapshot
    /\ fresh' = IF fresh.ok /\ t = fresh.v THEN fresh ELSE NotFresh
    /\ UNCHANGED <<value, curve, duration, reversible, clamp, clock,
                   otherVars>>

\* time passes: Instant::now() is monotone
Advance ==
    /\ clock < MaxTime
    /\ clock' = clock + 1
    /\ op' = [name |-> "advance", arg |-> 0]
    /\ pre' = Snapshot
    /\ UNCHANGED <<tvars, reversible, clamp, leg, fresh, otherVars>>

\* Transition::update(event)
Update(event) ==
    \/ /\ event.kind = "Settle"
       /\ Settle
    \/ /\ event.kind = "Tick"
       /\ Tick(event.arg)
    \/ /\ event.kind = "Target"
       /\ Interrupt(event.arg)

Events ==
    {[kind |-> "Settle", arg |-> 0]}
    \cup {[kind |-> "Tick", arg |-> n] : n \in Times}
    \cup {[kind |-> "Target", arg |-> v] : v \in Values}

Next ==
    \/ \E event \in Events : Update(event)
    \/ ReverseOp
    \/ \E d \in Durations : SetDuration(d)
    \/ Advance

Spec == Init /\ [][Next]_vars

\* ------------------------------------------------------------ the driver loop
\* The host configures and retargets the transition, and then redraws frame
\* after frame: each frame delivers Event::Tick(Instant::now()).  Events other
\* than ticks are delivered only while the animation they start can still
\* end before the clock reaches MaxTime.
InitDriver == Init /\ duration > 0 /\ duration <= MaxTime

SetupOpen(d) == d > 0 /\ clock + d <= MaxTime

DriverTarget ==
    /\ SetupOpen(duration)
    /\ \E t \in Values : Update([kind |-> "Target", arg |-> t])

DriverReverse == SetupOpen(duration) /\ ReverseOp

\* the durations the host sets: those of the easings and one shorter one
ShortDuration == 1
DriverDurations == Durations \cup {ShortDuration}

DriverSetDuration ==
    \E d \in DriverDurations : SetupOpen(d) /\ SetDuration(d)

\* a frame: the host delivers a tick with the current time
DriverTick == Update([kind |-> "Tick", arg |-> clock])

NextDriver ==
    \/ DriverTarget
    \/ DriverReverse
    \/ DriverSetDuration
    \/ DriverTick
    \/ Advance

SpecDriver ==
    /\ InitDriver
    /\ [][NextDriver]_vars
    /\ WF_vars(Advance)
    /\ WF_vars(DriverTick)

TypeOK ==
    /\ initial \in Values \cup {NotANumber}
    /\ value \in Values \cup {NotANumber}
    /\ target \in Values
    /\ progress.p \in (0..One) \cup {NotANumber}
    /\ clamp \in NaNClamps \cup {Unseen}
    /\ last_update \in Times /\ clock \in Times

\* ------------------------------------------- Animate for the highlighter types
(***************************************************************************)
(* The repository holds two files for the module `highlighter`:           *)
(* highlighter.rs and highlighter/mod.rs.  Both implement Animate for u8, *)
(* Color, StyleModifier, ThemeItem and highlighting::Theme; `file` says   *)
(* which one is compiled.  An f32 component is counted in 255ths, so that *)
(* a u8 channel c stands for c / 255.  Integer overflow panics in a build *)
(* with overflow checks ("debug") and wraps otherwise ("release").  The   *)
(* delta iterator is a stream of `left` equal items d.  The colours of a  *)
(* StyleModifier are taken to be present (Some).                          *)
(***************************************************************************)
Files == {"highlighter.rs", "mod.rs"}
Profiles == {"debug", "release"}
AnimateTypes == {"u8", "Color", "StyleModifier", "ThemeItem", "Theme"}

U8Max == 255
U8Mod == U8Max + 1

ThemeCapRs == 150
ThemeCapMod == 200
ColorComponents == 4

ThemeCap(file) == IF file = "highlighter.rs" THEN ThemeCapRs ELSE ThemeCapMod

\* Animate::components
Components(file, type) ==
    CASE type = "u8" -> 1
      [] type = "Color" -> ColorComponents
      [] type = "StyleModifier" -> ColorComponents * 2
      [] type = "ThemeItem" -> ColorComponents * 2
      [] type = "Theme" -> ColorComponents * 2 * ThemeCap(file)

Ok(v) == [v |-> v, panic |-> "none"]
Panic(why) == [v |-> 0, panic |-> why]

\* u8 + u8
U8Add(a, b, profile) ==
    IF a + b <= U8Max THEN Ok(a + b)
    ELSE IF profile = "debug" THEN Panic("overflow")
    ELSE Ok((a + b) % U8Mod)

\* u8 - u8
U8Sub(a, b, profile) ==
    IF a >= b THEN Ok(a - b)
    ELSE IF profile = "debug" THEN Panic("overflow")
    ELSE Ok((a - b) % U8Mod)

\* `x as u8` of the f32 n / 255: truncates towards zero and saturates
CastU8(n) ==
    IF n <= 0 THEN 0
    ELSE IF n \div U8Max > U8Max THEN U8Max
    ELSE n \div U8Max

\* `(x * 255.0) as u8` of the f32 n / 255
ScaledCastU8(n) ==
    IF n <= 0 THEN 0 ELSE IF n > U8Max THEN U8Max ELSE n

\* --- f32 arithmetic on channels, computed exactly with integers.
\* An f32 in [0, 1] is written as a pair <<h, l>> that stands for
\* (2 * h + l) / 2^31, with l in {0, 1}: every f32 from 2^-8 to 1 is such a
\* number, and so is every sum or difference of two of them.

\* -E for the binade [2^E, 2^(E+1)) of k / 255, k in 1..255
BinadeShift(k) ==
    CHOOSE sh \in 0..8 :
        /\ k * (2 ^ sh) >= U8Max
        /\ sh = 0 \/ k * (2 ^ (sh - 1)) < U8Max

\* the 24-bit significand of the f32 nearest to k / 255 (a tie cannot occur,
\* 255 being odd)
Significand(k) ==
    LET num == (k * (2 ^ BinadeShift(k)) - U8Max) * (2 ^ 23)
    IN  (2 ^ 23) + (num \div U8Max)
            + (IF 2 * (num % U8Max) > U8Max THEN 1 ELSE 0)

\* `k as f32 / 255.0` for k in 0..255
F32Of255th(k) ==
    IF k = 0 THEN <<0, 0>>
    ELSE IF BinadeShift(k) = 8
    THEN <<Significand(k) \div 2, Significand(k) % 2>>
    ELSE <<Significand(k) * (2 ^ (7 - BinadeShift(k))), 0>>

\* the spacing of the f32 numbers around h / 2^30, in units of 2^-30
Spacing(h) ==
    CHOOSE g \in {2 ^ i : i \in 0..6} :
        /\ h < (2 ^ 24) * g
        /\ g = 1 \/ h >= (2 ^ 23) * g

\* an exact sum rounded to the nearest f32, ties to the even significand;
\* below 2^-7 every such sum is an f32 already, and so is 1
F32Round(x) ==
    IF x[1] < 2 ^ 23 \/ x[1] >= 2 ^ 30
    THEN x
    ELSE LET g == Spacing(x[1])
             q == x[1] \div g
             twice == 2 * (x[1] % g) + x[2]
             up == twice > g \/ (twice = g /\ q % 2 = 1)
         IN  <<(q + (IF up THEN 1 ELSE 0)) * g, 0>>

\* the least power of two that is not below k, k in 1..256
PowerOfTwoFrom(k) ==
    CHOOSE p \in {2 ^ i : i \in 0..8} : p >= k /\ (p = 1 \/ p \div 2 < k)

\* `(s * 255.0) as u8` for an f32 s in [0, 1]: the product y is rounded to
\* an f32 and truncated, so the result is the whole number above y exactly
\* when y is within half a spacing of it
F32Times255AsU8(x) ==
    LET a == x[1] \div (2 ^ 22)
        b == x[1] % (2 ^ 22)
        v == ((U8Max * a) % U8Mod) * (2 ^ 22) + U8Max * b
        f == (U8Max * a) \div U8Mod + v \div (2 ^ 30)
        gap == (2 ^ 30) - (v % (2 ^ 30))
    IN  IF v % (2 ^ 30) = 0 /\ x[2] = 0 THEN f
        ELSE IF gap > 2 ^ 14 THEN f
        ELSE IF 2 * gap - U8Max * x[2] <= 64 * PowerOfTwoFrom(f + 1)
        THEN f + 1
        ELSE f

\* x + d or x - d exactly, for pairs x and d; <<0, 0>> stands for any sum
\* that is not above 0 and <<2^30, 0>> for any that is not below 1
ExactSum(x, d, negative) ==
    IF negative
    THEN IF x[1] < d[1] \/ (x[1] = d[1] /\ x[2] <= d[2])
         THEN <<0, 0>>
         ELSE IF x[2] >= d[2]
         THEN <<x[1] - d[1], x[2] - d[2]>>
         ELSE <<x[1] - d[1] - 1, 1>>
    ELSE LET h == x[1] + d[1] + (x[2] + d[2]) \div 2
         IN  IF h >= 2 ^ 30 THEN <<2 ^ 30, 0>> ELSE <<h, (x[2] + d[2]) % 2>>

\* `((c as f32 / 255.0 + x).clamp(0.0, 1.0) * 255.0) as u8` for the f32 x
\* nearest to n / 255; a delta of 1.0 or more, or of -1.0 or less, takes the
\* sum out of [0, 1] whatever c is
ClampedChannel(c, n) ==
    IF n >= U8Max THEN U8Max
    ELSE IF n <= -U8Max THEN 0
    ELSE F32Times255AsU8(
            F32Round(ExactSum(F32Of255th(c),
                              F32Of255th(IF n < 0 THEN -n ELSE n), n < 0)))

\* <u8 as Animate>::update: the same in both files
U8Update(file, x, d, profile) == U8Add(x, CastU8(d), profile)

\* <u8 as Animate>::distance_to
U8Distance(file, x, y, profile) ==
    IF file = "highlighter.rs"
    THEN Ok(<<x - y>>)
    ELSE LET r == U8Sub(x, y, profile)
         IN  IF r.panic # "none" THEN r ELSE Ok(<<r.v * U8Max>>)

\* one channel of <Color as Animate>::update
ChannelUpdate(file, c, d, profile) ==
    IF file = "highlighter.rs"
    THEN Ok(ClampedChannel(c, d))
    ELSE U8Add(c, ScaledCastU8(d), profile)

FirstPanic(rs) ==
    IF \E i \in DOMAIN rs : rs[i].panic # "none"
    THEN rs[CHOOSE i \in DOMAIN rs :
                /\ rs[i].panic # "none"
                /\ \A j \in DOMAIN rs : j < i => rs[j].panic = "none"].panic
    ELSE "none"

\* the channels of a color, in the order of its components
Channels(c) == <<c.r, c.g, c.b, c.a>>

\* the channel of `end` that each channel of `self` is compared with
ColorDistanceOperands(file, c, e) ==
    IF file = "highlighter.rs"
    THEN <<<<c.r, e.r>>, <<c.g, e.g>>, <<c.b, e.b>>, <<c.a, e.a>>>>
    ELSE <<<<c.r, e.r>>, <<c.g, e.r>>, <<c.b, e.r>>, <<c.a, e.r>>>>

\* <Color as Animate>::distance_to
ColorDistance(file, c, e, profile) ==
    LET ops == ColorDistanceOperands(file, c, e)
        rs == [i \in 1..4 |-> U8Distance(file, ops[i][1], ops[i][2], profile)]
    IN  IF FirstPanic(rs) # "none"
        THEN Panic(FirstPanic(rs))
        ELSE Ok([i \in 1..4 |-> rs[i].v[1]])

\* <StyleModifier as Animate>::distance_to and <ThemeItem as Animate>::distance_to
ItemDistance(file, m, e, profile) ==
    LET f == ColorDistance(file, m.fg, e.fg, profile)
        b == ColorDistance(file, m.bg, e.bg, profile)
    IN  IF f.panic # "none" THEN f
        ELSE IF b.panic # "none" THEN b
        ELSE Ok(f.v \o b.v)

\* the u8 channels of a value, in the order of its components
ChannelsOf(type, x) ==
    CASE type = "u8" -> <<x>>
      [] type = "Color" -> Channels(x)
      [] OTHER -> Channels(x.fg) \o Channels(x.bg)

\* the update of one channel of a value of `type`
ChannelStep(file, type, c, d, profile) ==
    IF type = "u8"
    THEN U8Update(file, c, d, profile)
    ELSE ChannelUpdate(file, c, d, profile)

\* the value of `type` whose channels are cs
ValueOf(type, cs) ==
    CASE type = "u8" -> cs[1]
      [] type = "Color" -> [r |-> cs[1], g |-> cs[2], b |-> cs[3], a |-> cs[4]]
      [] OTHER -> [fg |-> [r |-> cs[1], g |-> cs[2], b |-> cs[3], a |-> cs[4]],
                   bg |-> [r |-> cs[5], g |-> cs[6], b |-> cs[7], a |-> cs[8]]]

\* the place of the first panic in a sequence of results, 0 when none panics
FirstPanicAt(rs) ==
    IF \E i \in DOMAIN rs : rs[i].panic # "none"
    THEN CHOOSE i \in DOMAIN rs :
             /\ rs[i].panic # "none"
             /\ \A j \in DOMAIN rs : j < i => rs[j].panic = "none"
    ELSE 0

\* the channels are assigned in place, one after the other, each after one
\* next(): a panic at channel k leaves the channels before k assigned and
\* the others as they were, and has taken k items, or all of a stream that
\* ran dry
AssignedUntil(type, cs, rs, k, left) ==
    [v |-> ValueOf(type, [i \in DOMAIN cs |->
                             IF k = 0 \/ i < k THEN rs[i].v ELSE cs[i]]),
     panic |-> IF k = 0 THEN "none" ELSE rs[k].panic,
     left |-> left - (IF k = 0 THEN Len(cs) ELSE Min(k, left))]

\* update of a u8, Color, StyleModifier or ThemeItem on a stream of `left`
\* items d: channel i panics at next().unwrap() when the stream holds fewer
\* than i items
ValueUpdate(file, type, x, d, left, profile) ==
    AssignedUntil(type, ChannelsOf(type, x),
                  [i \in 1..Components(file, type) |->
                      IF i > left
                      THEN Panic("unwrap")
                      ELSE ChannelStep(file, type, ChannelsOf(type, x)[i],
                                       d, profile)],
                  FirstPanicAt(
                  [i \in 1..Components(file, type) |->
                      IF i > left
                      THEN Panic("unwrap")
                      ELSE ChannelStep(file, type, ChannelsOf(type, x)[i],
                                       d, profile)]),
                  left)

\* a highlighting::Theme with n scopes, all equal to item
ThemeOf(desc) == [i \in 1..desc.n |-> desc.item]

\* the scopes are updated in place and in order: a panic in scope k leaves
\* the scopes before k updated, scope k as far as it came and the others as
\* they were.  `extra` is a usize: below zero it panics with overflow checks,
\* after every scope was updated, and wraps to a count larger than any
\* iterator without, and nth then drains the iterator.  nth(extra) takes
\* extra + 1 items, or what is left.
ScopesUntil(file, t, rs, k, left, profile) ==
    LET used == Components(file, "ThemeItem") * Len(t)
        extra == Components(file, "Theme") - used - 1
    IN  IF k # 0
        THEN [v |-> [i \in 1..Len(t) |-> IF i <= k THEN rs[i].v ELSE t[i]],
              panic |-> rs[k].panic, left |-> rs[k].left]
        ELSE IF extra < 0
        THEN IF profile = "debug"
             THEN [v |-> [i \in 1..Len(t) |-> rs[i].v], panic |-> "underflow",
                   left |-> left - used]
             ELSE [v |-> [i \in 1..Len(t) |-> rs[i].v], panic |-> "none",
                   left |-> 0]
        ELSE [v |-> [i \in 1..Len(t) |-> rs[i].v], panic |-> "none",
              left |-> (left - used) - Min(extra + 1, left - used)]

\* the update of scope i of a theme on what the scopes before it left of a
\* stream of `left` items d
ScopeUpdates(file, t, d, left, profile) ==
    [i \in 1..Len(t) |->
        ValueUpdate(file, "ThemeItem", t[i], d,
                    IF left > Components(file, "ThemeItem") * (i - 1)
                    THEN left - Components(file, "ThemeItem") * (i - 1)
                    ELSE 0,
                    profile)]

\* <highlighting::Theme as Animate>::update on a stream of `left` items d
ThemeUpdate(file, t, d, left, profile) ==
    ScopesUntil(file, t, ScopeUpdates(file, t, d, left, profile),
                FirstPanicAt(ScopeUpdates(file, t, d, left, profile)),
                left, profile)

\* the number of scope pairs that distance_to zips
ThemeZipLen(file, t, e) ==
    IF file = "highlighter.rs"
    THEN Min(Len(t), Min(Len(e), Len(t)))
    ELSE Min(Len(t), Min(Len(e), Len(t) * 2))

\* Vec::resize(n, 0.0)
Resize(v, n) == [i \in 1..n |-> IF i <= Len(v) THEN v[i] ELSE 0]

\* <highlighting::Theme as Animate>::distance_to
ThemeDistance(file, t, e, profile) ==
    LET k == ThemeZipLen(file, t, e)
        per == Components(file, "ThemeItem")
        rs == [i \in 1..k |-> ItemDistance(file, t[i], e[i], profile)]
        flat == [j \in 1..(k * per) |->
                    rs[((j - 1) \div per) + 1].v[((j - 1) % per) + 1]]
    IN  IF FirstPanic(rs) # "none"
        THEN Panic(FirstPanic(rs))
        ELSE IF file = "highlighter.rs"
        THEN Ok(Resize(flat, Components(file, "Theme")))
        ELSE Ok(flat)

\* update of a value of `type`, which takes its items by next().unwrap()
AnimateUpdate(file, type, x, d, left, profile) ==
    IF type = "Theme"
    THEN ThemeUpdate(file, ThemeOf(x), d, left, profile)
    ELSE ValueUpdate(file, type, x, d, left, profile)

\* distance_to of two values of `type`
AnimateDistance(file, type, x, y, profile) ==
    CASE type = "u8" -> U8Distance(file, x, y, profile)
      [] type = "Color" -> ColorDistance(file, x, y, profile)
      [] type = "Theme" -> ThemeDistance(file, ThemeOf(x), ThemeOf(y), profile)
      [] OTHER -> ItemDistance(file, x, y, profile)

\* --- the inputs of the Animate operations
MaxSmallTheme == 2
CapMargin == 1

Grey(c) == [r |-> c, g |-> c, b |-> c, a |-> c]

U8Samples == {0, 1, 200, U8Max}
ColorSamples ==
    {Grey(0), Grey(200), Grey(U8Max),
     [r |-> 1, g |-> 0, b |-> 0, a |-> U8Max],
     [r |-> 0, g |-> 1, b |-> 200, a |-> U8Max],
     [r |-> 3, g |-> 254, b |-> 126, a |-> U8Max]}
ItemSamples == {[fg |-> c, bg |-> Grey(1)] : c \in ColorSamples}
ScopeCounts ==
    (0..MaxSmallTheme)
    \cup ((ThemeCapRs - CapMargin)..(ThemeCapRs + CapMargin))
    \cup ((ThemeCapMod - CapMargin)..(ThemeCapMod + CapMargin))
ThemeSamples ==
    {[n |-> n, item |-> [fg |-> c, bg |-> Grey(1)]] :
        n \in ScopeCounts, c \in {Grey(0), Grey(200)}}
DeltaSamples == {-25500, -255, -128, -1, 0, 1, 255, 25500}

Samples(type) ==
    CASE type = "u8" -> U8Samples
      [] type = "Color" -> ColorSamples
      [] type = "Theme" -> ThemeSamples
      [] OTHER -> ItemSamples

\* the lengths of the delta stream: one item only, the value's own items
\* and one for a sibling, or enough for the longest theme and one for a sibling
StreamLengths(file, type) ==
    {1, Components(file, type) + 1,
     Components(file, "ThemeItem") * (ThemeCapMod + CapMargin + 1) + 1}

TransitionIdle ==
    /\ initial = 0 /\ value = 0 /\ target = 0
    /\ curve = "Linear"
    /\ duration = DEFAULT_DURATION
    /\ progress = ProgressDefault
    /\ last_update = 0
    /\ reversible = FALSE
    /\ clamp = Unseen
    /\ clock = 0
    /\ op = [name |-> "new", arg |-> 0]
    /\ pre = [animating |-> FALSE, p |-> One]
    /\ leg = NoLeg
    /\ fresh = [ok |-> TRUE, v |-> 0]

\* a call that has not run yet has no result
Pending == [v |-> 0, panic |-> "none", left |-> 0]

UpdateCalls ==
    UNION {{[kind |-> "update", done |-> FALSE, file |-> file,
             profile |-> profile, type |-> type, x |-> x, y |-> x,
             d |-> d, left |-> left, res |-> Pending] :
                x \in Samples(type), d \in DeltaSamples,
                left \in StreamLengths(file, type)} :
           file \in Files, profile \in Profiles, type \in AnimateTypes}

DistanceCalls ==
    UNION {{[kind |-> "distance", done |-> FALSE, file |-> file,
             profile |-> profile, type |-> type, x |-> x, y |-> y,
             d |-> 0, left |-> 0, res |-> Pending] :
                x \in Samples(type), y \in Samples(type)} :
           file \in Files, profile \in Profiles, type \in AnimateTypes}

InitAnimate ==
    /\ TransitionIdle
    /\ th = ThNone /\ ez = EzNone /\ hl = HlNone
    /\ an \in UpdateCalls \cup DistanceCalls

UpdateOp ==
    /\ an.kind = "update" /\ ~an.done
    /\ an' = [an EXCEPT !.done = TRUE,
                        !.res = AnimateUpdate(an.file, an.type, an.x, an.d,
                                              an.left, an.profile)]
    /\ UNCHANGED <<transitionVars, th, ez, hl>>

DistanceOp ==
    /\ an.kind = "distance" /\ ~an.done
    /\ an' = [an EXCEPT !.done = TRUE,
                        !.res = AnimateDistance(an.file, an.type, an.x, an.y,
                                                an.profile)]
    /\ UNCHANGED <<transitionVars, th, ez, hl>>

NextAnimate == UpdateOp \/ DistanceOp

SpecAnimate == InitAnimate /\ [][NextAnimate]_vars

\* -------------------------------------------------- Theme (highlighter/theme.rs)
MaxShade == 9

Presets ==
    <<"SolarizedDark", "SolarizedLight", "Base16Mocha", "Base16OceanDark",
      "Base16OceanLight", "Base16Eighties", "InspiredGitHub">>

\* THEMES.themes[..]: the loaded default of a preset, one scope whose
\* foreground tells the presets apart
PresetTheme(i) == ThemeOf([n |-> 1, item |-> [fg |-> Grey(i), bg |-> Grey(0)]])

Preset(i) == [kind |-> "preset", name |-> Presets[i], t |-> PresetTheme(i)]
Custom(t) == [kind |-> "custom", name |-> "Custom", t |-> t]

\* static HIGHLIGHTER_THEME: OnceCell<highlighting::Theme>
CellEmpty == [set |-> FALSE, t |-> <<>>]
CellOf(t) == [set |-> TRUE, t |-> t]

\* OnceCell::get_or_init: the closure runs only while the cell is empty
GetOrInit(cell, t) == IF cell.set THEN cell ELSE CellOf(t)

\* get_or_init that runs its closure on every call
GetOrInitAlways(cell, t) == CellOf(t)

\* the cell after Theme::highlighter_theme(self)
CellAfter(self, cell) ==
    IF self.kind = "custom" THEN GetOrInit(cell, self.t) ELSE cell

\* Theme::highlighter_theme(self)
HighlighterTheme(self, cell) ==
    IF self.kind = "custom" THEN CellAfter(self, cell).t ELSE self.t

Shade(t) == t[1].fg.r

InitTheme ==
    /\ TransitionIdle
    /\ an = AnNone /\ ez = EzNone /\ hl = HlNone
    /\ \E i \in DOMAIN Presets :
          th = [op |-> "new", self |-> Preset(i), cell |-> CellEmpty,
                res |-> <<>>, end |-> Preset(i), dist |-> Ok(<<>>)]

\* a Theme value chosen by the application: a preset
SelectPreset ==
    /\ \E i \in DOMAIN Presets :
          th' = [th EXCEPT !.op = "new", !.self = Preset(i), !.res = <<>>,
                           !.end = Preset(i), !.dist = Ok(<<>>)]
    /\ UNCHANGED <<transitionVars, an, ez, hl>>

\* self.highlighter_theme()
HighlighterThemeOp ==
    /\ th' = [th EXCEPT !.op = "highlighter_theme",
                        !.cell = CellAfter(th.self, th.cell),
                        !.res = HighlighterTheme(th.self, th.cell),
                        !.end = th.self, !.dist = Ok(<<>>)]
    /\ UNCHANGED <<transitionVars, an, ez, hl>>

\* <Theme as Animate>::update on a stream of components() items d
ThemeUpdateOp ==
    /\ \E file \in Files, d \in {0, 1}, profile \in Profiles :
          LET r == ThemeUpdate(file, HighlighterTheme(th.self, th.cell), d,
                               Components(file, "Theme"), profile)
          IN  /\ r.panic = "none"
              /\ Shade(r.v) <= MaxShade
              /\ th' = [th EXCEPT !.op = "update",
                                  !.cell = CellAfter(th.self, th.cell),
                                  !.self = Custom(r.v),
                                  !.res = <<>>,
                                  !.end = Custom(r.v), !.dist = Ok(<<>>)]
    /\ UNCHANGED <<transitionVars, an, ez, hl>>

\* the Theme values that distance_to is given as its end: a preset, and
\* custom themes that equal a preset
DistanceEnds ==
    {Preset(1)} \cup {Custom(PresetTheme(i)) : i \in 1..2}

\* <Theme as Animate>::distance_to: self.highlighter_theme() is resolved
\* first and end.highlighter_theme() second, both through the one cell
ThemeDistanceOp ==
    /\ \E file \in Files, profile \in Profiles, end \in DistanceEnds :
          LET first == CellAfter(th.self, th.cell)
          IN  th' = [th EXCEPT
                        !.op = "distance_to",
                        !.cell = CellAfter(end, first),
                        !.res = <<>>,
                        !.end = end,
                        !.dist = ThemeDistance(
                                     file, HighlighterTheme(th.self, th.cell),
                                     HighlighterTheme(end, first), profile)]
    /\ UNCHANGED <<transitionVars, an, ez, hl>>

NextTheme ==
    SelectPreset \/ HighlighterThemeOp \/ ThemeUpdateOp \/ ThemeDistanceOp

SpecTheme == InitTheme /\ [][NextTheme]_vars

\* ------------------------------------------------ Easing (transition/easing.rs)
\* Easing values with their durations in milliseconds.
\* easing.rs takes its default from crate::animated::DEFAULT_DURATION, a
\* constant of its own that a build fixes: the value is an input
AnimatedDefaultDurations == {500, 750}

VeryQuickMs == 100
QuickMs == 200
SlowMs == 400
VerySlowMs == 500
OtherMs == 300

EasingDurations == {VeryQuickMs, QuickMs, OtherMs, SlowMs, VerySlowMs}

AllCurves == {"Linear", "Ease", "EaseIn", "EaseOut", "EaseInOut"}

\* Curve::default() is one of the curves: which one is set by the build
CurveDefaults == AllCurves

\* Easing::LINEAR, EASE, EASE_IN, EASE_OUT, EASE_IN_OUT
EasingConst(dflt) ==
    [LINEAR |-> [curve |-> "Linear", duration |-> dflt,
                 reversible |-> FALSE],
     EASE |-> [curve |-> "Ease", duration |-> dflt,
               reversible |-> FALSE],
     EASE_IN |-> [curve |-> "EaseIn", duration |-> dflt,
                  reversible |-> FALSE],
     EASE_OUT |-> [curve |-> "EaseOut", duration |-> dflt,
                   reversible |-> FALSE],
     EASE_IN_OUT |-> [curve |-> "EaseInOut", duration |-> dflt,
                      reversible |-> FALSE]]

\* Easing::new
EasingNew(c, dflt) ==
    [curve |-> c, duration |-> dflt, reversible |-> FALSE]

\* Easing::with_curve
EasingWithCurve(e, c) == [e EXCEPT !.curve = c]

\* Easing::very_quick, quick, slow, very_slow
EasingVeryQuick(e) == EasingWithDuration(e, VeryQuickMs)
EasingQuick(e) == EasingWithDuration(e, QuickMs)
EasingSlow(e) == EasingWithDuration(e, SlowMs)
EasingVerySlow(e) == EasingWithDuration(e, VerySlowMs)

NoArg == [curve |-> "", duration |-> 0, reversible |-> FALSE]

\* the easing e made by operation o with arguments a from the easing ez.e
Made(e, o, a) ==
    [e |-> e, prev |-> ez.e, op |-> o, arg |-> a, dflt |-> ez.dflt,
     cdflt |-> ez.cdflt]

InitEasing ==
    /\ TransitionIdle
    /\ an = AnNone /\ th = ThNone /\ hl = HlNone
    /\ \E dflt \in AnimatedDefaultDurations, cdflt \in CurveDefaults :
          ez = [e |-> EasingDefault(cdflt, dflt),
                prev |-> EasingDefault(cdflt, dflt),
                op |-> "default", arg |-> NoArg, dflt |-> dflt,
                cdflt |-> cdflt]

DefaultOp ==
    /\ ez' = Made(EasingDefault(ez.cdflt, ez.dflt), "default", NoArg)
    /\ UNCHANGED <<transitionVars, an, th, hl>>

ConstOp ==
    /\ \E n \in DOMAIN EasingConst(ez.dflt) :
          ez' = Made(EasingConst(ez.dflt)[n], n, NoArg)
    /\ UNCHANGED <<transitionVars, an, th, hl>>

NewOp ==
    /\ \E c \in AllCurves :
          ez' = Made(EasingNew(c, ez.dflt), "new", [NoArg EXCEPT !.curve = c])
    /\ UNCHANGED <<transitionVars, an, th, hl>>

WithCurveOp ==
    /\ \E c \in AllCurves :
          ez' = Made(EasingWithCurve(ez.e, c), "with_curve",
                     [NoArg EXCEPT !.curve = c])
    /\ UNCHANGED <<transitionVars, an, th, hl>>

WithDurationOp ==
    /\ \E d \in EasingDurations :
          ez' = Made(EasingWithDuration(ez.e, d), "with_duration",
                     [NoArg EXCEPT !.duration = d])
    /\ UNCHANGED <<transitionVars, an, th, hl>>

VeryQuickOp ==
    /\ ez' = Made(EasingVeryQuick(ez.e), "very_quick", NoArg)
    /\ UNCHANGED <<transitionVars, an, th, hl>>

QuickOp ==
    /\ ez' = Made(EasingQuick(ez.e), "quick", NoArg)
    /\ UNCHANGED <<transitionVars, an, th, hl>>

SlowOp ==
    /\ ez' = Made(EasingSlow(ez.e), "slow", NoArg)
    /\ UNCHANGED <<transitionVars, an, th, hl>>

VerySlowOp ==
    /\ ez' = Made(EasingVerySlow(ez.e), "very_slow", NoArg)
    /\ UNCHANGED <<transitionVars, an, th, hl>>

ReversibleOp ==
    /\ \E b \in BOOLEAN :
          ez' = Made(EasingReversible(ez.e, b), "reversible",
                     [NoArg EXCEPT !.reversible = b])
    /\ UNCHANGED <<transitionVars, an, th, hl>>

NextEasing ==
    \/ DefaultOp \/ ConstOp \/ NewOp
    \/ WithCurveOp \/ WithDurationOp
    \/ VeryQuickOp \/ QuickOp \/ SlowOp \/ VerySlowOp
    \/ ReversibleOp

SpecEasing == InitEasing /\ [][NextEasing]_vars

\* ------------------------------------- Highlighter (highlighter/highlighter.rs)
LINES_PER_SNAPSHOT == 50
MaxLine == 53
MaxChangeLine == 201
MaxUnread == 1

\* the lines given to change_line: the first two and the last of every block
ChangeLines ==
    {n \in 0..MaxChangeLine :
        n % LINES_PER_SNAPSHOT \in {0, 1, LINES_PER_SNAPSHOT - 1}}

\* settings.token: a token that SYNTAXES knows, and one that it does not
Tokens == {"rs", "?"}

\* find_syntax_by_token(token).unwrap_or_else(find_syntax_plain_text)
SyntaxOf(token) == IF token = "rs" THEN "Rust" ELSE "Plain Text"

\* (ParseState::new(syntax), ScopeStack::new()): a parser state is the
\* syntax it was made for and the number of lines it has parsed since, a
\* scope stack the number of lines whose scope operations were applied to it
FreshParser(syntax) == [syntax |-> syntax, lines |-> 0, stack |-> 0]

\* what the caller does with the iterator that highlight_line returns: it
\* reads it to its end, or drops it unread
Reads == BOOLEAN

\* Vec::truncate
Truncate(cs, n) == SubSeq(cs, 1, Min(n, Len(cs)))

\* settings.theme: a preset and a custom theme
SettingsThemes == {Preset(1), Custom(PresetTheme(2))}

\* the Theme state after settings.theme.highlighter_theme(), which goes
\* through the cell HIGHLIGHTER_THEME
Resolved(theme, cell) ==
    [op |-> "highlighter_theme", self |-> theme,
     cell |-> CellAfter(theme, cell), res |-> HighlighterTheme(theme, cell),
     end |-> theme, dist |-> Ok(<<>>)]

\* Highlighter::new: `theme` is what highlighter_theme() resolved, the theme
\* of highlighting::Highlighter::new
HighlighterNew(token, theme) ==
    [syntax |-> SyntaxOf(token), caches |-> <<FreshParser(SyntaxOf(token))>>,
     current_line |-> 0, theme |-> theme, panic |-> FALSE, op |-> "new",
     arg |-> 0]

Snapshot50(line) == line \div LINES_PER_SNAPSHOT

\* the caches that change_line keeps
ChangeLineKept(cs, line) ==
    IF Snapshot50(line) <= Len(cs)
    THEN Truncate(cs, Snapshot50(line))
    ELSE Truncate(cs, 1)

\* the current line that change_line sets
ChangeLineCurrent(cs, line) ==
    IF Snapshot50(line) <= Len(cs)
    THEN Snapshot50(line) * LINES_PER_SNAPSHOT
    ELSE 0

\* (variant) change_line without its final push
ChangeLineNoPush(cs, line, syntax) == ChangeLineKept(cs, line)

\* the caches after change_line: a copy of the last kept one is pushed, or
\* a fresh parser if none is kept
ChangeLineCaches(cs, line, syntax) ==
    LET kept == ChangeLineKept(cs, line)
    IN  Append(kept, IF kept = <<>> THEN FreshParser(syntax)
                     ELSE kept[Len(kept)])

\* either expect("Caches must not be empty") of highlight_line fails
HighlightLinePanics(cs, cl) == cs = <<>>

\* the caches after highlight_line: a new snapshot is pushed at the start of
\* a block and the parser of the last one parses the line; the scope
\* operations of the line are applied to the stack of the last one by the
\* iterator that is returned, as the caller reads it
HighlightLineCaches(cs, cl, read) ==
    LET pushed == IF Snapshot50(cl) >= Len(cs)
                  THEN Append(cs, cs[Len(cs)])
                  ELSE cs
    IN  [pushed EXCEPT ![Len(pushed)].lines = @ + 1,
                       ![Len(pushed)].stack = IF read THEN @ + 1 ELSE @]

\* the lines that the parser of the last cache has parsed and its stack has
\* not seen
Unread(cs) == cs[Len(cs)].lines - cs[Len(cs)].stack

InitHighlighter ==
    /\ TransitionIdle
    /\ an = AnNone /\ ez = EzNone
    /\ \E token \in Tokens, theme \in SettingsThemes :
          /\ hl = HighlighterNew(token, HighlighterTheme(theme, CellEmpty))
          /\ th = Resolved(theme, CellEmpty)

\* Highlighter::change_line
ChangeLineOp ==
    /\ ~hl.panic
    /\ \E line \in ChangeLines :
          hl' = [hl EXCEPT
                    !.caches = ChangeLineCaches(hl.caches, line, hl.syntax),
                    !.current_line = ChangeLineCurrent(hl.caches, line),
                    !.op = "change_line", !.arg = line]
    /\ UNCHANGED <<transitionVars, an, th, ez>>

\* Highlighter::update: the new syntax, the theme that
\* new_settings.theme.highlighter_theme() resolves, then change_line(0)
HighlighterUpdateOp ==
    /\ ~hl.panic
    /\ \E token \in Tokens, theme \in SettingsThemes :
          /\ hl' = [hl EXCEPT
                       !.syntax = SyntaxOf(token),
                       !.theme = HighlighterTheme(theme, th.cell),
                       !.caches = ChangeLineCaches(hl.caches, 0, SyntaxOf(token)),
                       !.current_line = ChangeLineCurrent(hl.caches, 0),
                       !.op = "update", !.arg = 0]
          /\ th' = Resolved(theme, th.cell)
    /\ UNCHANGED <<transitionVars, an, ez>>

\* Highlighter::highlight_line, and what the caller reads of its iterator
\* before the iterator is dropped
HighlightLineOp ==
    /\ ~hl.panic
    /\ hl.current_line < MaxLine
    /\ IF HighlightLinePanics(hl.caches, hl.current_line)
       THEN hl' = [hl EXCEPT !.panic = TRUE, !.op = "highlight_line",
                             !.arg = 0]
       ELSE \E read \in Reads :
               /\ read \/ Unread(hl.caches) < MaxUnread
               /\ hl' = [hl EXCEPT
                            !.caches = HighlightLineCaches(hl.caches,
                                           hl.current_line, read),
                            !.current_line = hl.current_line + 1,
                            !.op = "highlight_line", !.arg = 0]
    /\ UNCHANGED <<transitionVars, an, th, ez>>

NextHighlighter == ChangeLineOp \/ HighlighterUpdateOp \/ HighlightLineOp

SpecHighlighter == InitHighlighter /\ [][NextHighlighter]_vars

\* ------------------------------------------------------------------ claims
\* `a == b` of two f32: a NaN equals nothing, itself included
SameF32(a, b) == a # NotANumber /\ b # NotANumber /\ a = b

Settled == ~IsAnimating /\ SameF32(value, LogicalTarget)

\* wall-clock time from the last Target event to the last Tick after it
LegElapsed == leg.last - leg.at

C3_TickAtRestNoOp ==
    [][(op'.name = "tick" /\ ~IsAnimating) => UNCHANGED tvars]_vars

C3_Witness ==
    /\ op.name = "tick"
    /\ ~pre.animating
    /\ op.arg # last_update
    /\ progress.dir = "Reverse"

\* C4: interrupt(target()) changes neither initial nor progress (value and
\* direction included) nor value, in every reachable state.
C4_RetargetSameIdempotent ==
    [][(op'.name = "target" /\ op'.arg = LogicalTarget)
        => (initial' = initial /\ progress' = progress /\ value' = value)]_vars

\* C5: from rest at V0, after interrupt(V1) and ticks that leave the
\* transition incomplete, interrupt(V0) keeps initial, target and value,
\* keeps the progress value, turns the direction to Reverse and makes the
\* logical target V0.
C5_ReversalSymmetry ==
    [][(leg.kind = "fwd" /\ leg.fromRest /\ IsAnimating
            /\ op'.name = "target" /\ op'.arg = leg.v0)
        => /\ initial' = initial
           /\ target' = target
           /\ value' = value
           /\ progress' = Reverse(progress.p)
           /\ TargetOf(progress', initial', target') = leg.v0]_vars

C5_Witness ==
    /\ op.name = "target"
    /\ leg.kind = "rev"
    /\ leg.fwd.ok
    /\ leg.fwd.e > 0
    /\ progress.p \in 1..(One - 1)
    /\ value # initial
    /\ value # target

\* C6: a forward leg V0 -> V1 that ran for e (0 < e < D) and was reversed by
\* interrupt(V0) is at rest at exactly V0 once the reverse leg has run for e,
\* is still animating before that, and at every progress the forward leg
\* passed through shows the value the forward leg showed there.
C6_ReverseRetraces ==
    (leg.kind = "rev" /\ leg.fwd.ok /\ leg.fwd.e > 0 /\ leg.fwd.e < duration)
    => /\ (leg.ticked /\ LegElapsed >= leg.fwd.e)
            => (~IsAnimating /\ SameF32(value, leg.fwd.v0))
       /\ LegElapsed < leg.fwd.e => IsAnimating
       /\ progress.p \in DOMAIN leg.seen
            => SameF32(value, leg.seen[progress.p])

C6_Witness ==
    /\ leg.kind = "rev"
    /\ leg.fwd.ok
    /\ leg.fwd.e > 1
    /\ leg.fwd.e < duration
    /\ leg.ticked
    /\ LegElapsed > 0
    /\ LegElapsed < leg.fwd.e
    /\ progress.p \in DOMAIN leg.seen
    /\ value # leg.fwd.v0
    /\ value # leg.fwd.v1

C8_ReversalGated ==
    [][(~reversible /\ op'.name = "target" /\ op'.arg # LogicalTarget)
        => (progress' = Forward(0) /\ initial' = value)]_vars

\* C9: with a zero duration every tick, whatever time has elapsed (none
\* included, the quotient 0/0), leaves the transition settled, and progress
\* and value stay within their ranges.
C9_ZeroDurationInstant ==
    /\ (op.name = "tick" /\ duration = 0) => Settled
    /\ progress.p \in 0..One
    /\ value \in Values

C11_IdleTimeNotApplied ==
    [][(leg.kind = "fwd" /\ leg.fromRest /\ ~leg.ticked /\ duration > 0
            /\ op'.name = "tick" /\ op'.arg >= leg.at)
        => progress' = Forward(Min(One, ((op'.arg - leg.at) * One) \div duration))]_vars

C11_Witness ==
    /\ op.name = "tick"
    /\ leg.kind = "fwd"
    /\ leg.fromRest
    /\ leg.idle
    /\ leg.ticked
    /\ duration > 0
    /\ LegElapsed > 0
    /\ IsAnimating
    /\ Cardinality(DOMAIN leg.seen) = 2

\* C12: interrupting a transition that is animating leaves last_update
\* unchanged.
C12_InterruptKeepsLastUpdate ==
    [][(IsAnimating /\ op'.name = "target") => last_update' = last_update]_vars

\* C13: as long as new(v) has only been followed by Tick, Settle and
\* Target(v) events the transition is at rest with initial = target = value
\* = target() = v.
C13_FreshAtRest ==
    fresh.ok
    => /\ initial = fresh.v
       /\ target = fresh.v
       /\ SameF32(value, fresh.v)
       /\ SameF32(LogicalTarget, fresh.v)
       /\ ~IsAnimating

C13_Witness ==
    /\ fresh.ok
    /\ op.name = "target"
    /\ op.arg = fresh.v
    /\ clock > 0
    /\ last_update = clock

DistanceDone == an.kind = "distance" /\ an.done
UpdateDone == an.kind = "update" /\ an.done

\* C14: the distance of a value to itself is computed without underflow and
\* is zero in every component, and a component of Color's distance is zero
\* whenever the same channel of both colors is equal.
C14_DistanceIdentity ==
    DistanceDone =>
        /\ an.x = an.y =>
              /\ an.res.panic = "none"
              /\ \A i \in DOMAIN an.res.v : an.res.v[i] = 0
        /\ (an.type = "Color" /\ an.res.panic = "none") =>
              \A i \in 1..ColorComponents :
                  Channels(an.x)[i] = Channels(an.y)[i] => an.res.v[i] = 0

\* C15: distance_to returns exactly components() items, whatever the numbers
\* of scopes of the two themes.
C15_DistanceLength ==
    (DistanceDone /\ an.res.panic = "none")
        => Len(an.res.v) = Components(an.file, an.type)

\* C16: update takes exactly components() items from an iterator that holds
\* as many, and the padding count of a theme does not underflow.
C16_UpdateConsumesExactly ==
    (UpdateDone /\ an.left >= Components(an.file, an.type)) =>
        /\ an.res.panic # "underflow"
        /\ an.res.panic = "none"
              => an.left - an.res.left = Components(an.file, an.type)

\* C17: u8::update and Color::update do not overflow or wrap: a channel does
\* not fall under a delta that is not negative, and falls under a negative
\* delta unless it is already 0.
C17_ChannelClamped ==
    (UpdateDone /\ an.type \in {"u8", "Color"}) =>
        /\ an.res.panic = "none"
        /\ \A i \in 1..Components(an.file, an.type) :
              LET c == ChannelsOf(an.type, an.x)[i]
                  r == ChannelsOf(an.type, an.res.v)[i]
              IN  /\ r \in 0..U8Max
                  /\ an.d >= 0 => r >= c
                  /\ an.d < 0 => (r < c \/ (c = 0 /\ r = 0))

\* C18: highlighter_theme() on Theme::Custom(t) returns t, the theme that the
\* receiver wraps, whatever custom theme was resolved before.
C18_CustomResolvesToOwn ==
    (th.op = "highlighter_theme" /\ th.self.kind = "custom")
        => th.res = th.self.t

\* the curve that each preset constant is named after
NamedCurve ==
    [LINEAR |-> "Linear", EASE |-> "Ease", EASE_IN |-> "EaseIn",
     EASE_OUT |-> "EaseOut", EASE_IN_OUT |-> "EaseInOut"]

\* the duration that each named builder sets
NamedDuration ==
    [very_quick |-> 100, quick |-> 200, slow |-> 400, very_slow |-> 500]

\* C19: default(), new(curve) and the preset constants have the default
\* duration, are not reversible and have the named curve; a builder sets its
\* own field and keeps the other two fields of the easing it is applied to.
C19_EasingConstruction ==
    /\ ez.op = "default" =>
          /\ ez.e.curve = ez.cdflt
          /\ ez.e.duration = ez.dflt
          /\ ~ez.e.reversible
    /\ ez.op = "new" =>
          /\ ez.e.curve = ez.arg.curve
          /\ ez.e.duration = ez.dflt
          /\ ~ez.e.reversible
    /\ ez.op \in DOMAIN NamedCurve =>
          /\ ez.e.curve = NamedCurve[ez.op]
          /\ ez.e.duration = ez.dflt
          /\ ~ez.e.reversible
    /\ ez.op = "with_curve" =>
          /\ ez.e.curve = ez.arg.curve
          /\ ez.e.duration = ez.prev.duration
          /\ ez.e.reversible = ez.prev.reversible
    /\ ez.op = "with_duration" =>
          /\ ez.e.curve = ez.prev.curve
          /\ ez.e.duration = ez.arg.duration
          /\ ez.e.reversible = ez.prev.reversible
    /\ ez.op \in DOMAIN NamedDuration =>
          /\ ez.e.curve = ez.prev.curve
          /\ ez.e.duration = NamedDuration[ez.op]
          /\ ez.e.reversible = ez.prev.reversible
    /\ ez.op = "reversible" =>
          /\ ez.e.curve = ez.prev.curve
          /\ ez.e.duration = ez.prev.duration
          /\ ez.e.reversible = ez.arg.reversible

\* a builder applied to an easing none of whose fields is the default
C19_Witness ==
    /\ ez.op \in {"with_duration", "quick"}
    /\ ez.prev.reversible
    /\ ez.prev.curve = "EaseInOut"
    /\ ez.prev.duration = 300
    /\ ez.e.duration # ez.prev.duration

\* the endpoint that the transition is moving away from
OppositeEndpoint == IF progress.dir = "Forward" THEN initial ELSE target

\* C21: interrupt(t) with t different from the logical target, on a
\* transition that is at rest or whose opposite endpoint is not t, restarts:
\* Forward at progress 0 from the displayed value towards t, measured from
\* the time of the call, and the displayed value does not change.
C21_RestartOnNewTarget ==
    [][(/\ op'.name = "target"
        /\ op'.arg # LogicalTarget
        /\ (~IsAnimating \/ op'.arg # OppositeEndpoint))
       => /\ progress' = Forward(0)
          /\ initial' = value
          /\ target' = op'.arg
          /\ value' = value
          /\ last_update' = clock]_vars

\* a transition that had come to rest away from its initial value has been
\* retargeted later on, and to its former initial value in particular
C21_Witness ==
    /\ op.name = "target"
    /\ ~pre.animating
    /\ leg.fromRest /\ leg.idle
    /\ progress = Forward(0)
    /\ initial # target
    /\ value = initial
    /\ last_update = clock

\* C22: an interrupt towards the endpoint that a running transition moves
\* away from turns it round and keeps initial, target, value and the
\* progress value; two such interrupts in a row give back the progress
\* that the transition had before them.
C22_ReReversal ==
    [][(/\ IsAnimating
        /\ op'.name = "target"
        /\ op'.arg = OppositeEndpoint)
       => /\ initial' = initial /\ target' = target /\ value' = value
          /\ progress'.dir # progress.dir
          /\ progress'.p = progress.p
          /\ (op.name = "target" /\ leg.kind = "rev" /\ pre.animating
                /\ progress.dir = "Reverse")
                => progress' = Forward(pre.p)]_vars

\* a transition running in Reverse between two different values has been
\* turned Forward again in mid-flight
C22_Witness ==
    /\ op.name = "target"
    /\ leg.kind = "rev"
    /\ pre.animating
    /\ progress.dir = "Forward"
    /\ progress.p \in 1..(One - 1)
    /\ initial # target
    /\ op.arg = target
    /\ value # initial /\ value # target

\* C23: under the driver loop the transition comes to rest at its target and
\* stays there, and a tick moves the progress only towards its terminal
\* value (up when Forward, down when Reverse) and keeps it between 0 and 1.
C23_DriverTerminates ==
    /\ <>[](~IsAnimating /\ SameF32(value, LogicalTarget))
    /\ [][op'.name = "tick" =>
            /\ progress'.dir = progress.dir
            /\ progress'.p \in 0..One
            /\ progress.dir = "Forward" => progress'.p >= progress.p
            /\ progress.dir = "Reverse" => progress'.p <= progress.p]_vars

\* a transition that was turned round in mid-flight has been brought to rest
\* at its initial value by a tick
C23_Witness ==
    /\ op.name = "tick"
    /\ pre.animating
    /\ ~IsAnimating
    /\ progress = Reverse(0)
    /\ leg.kind = "rev"
    /\ initial # target
    /\ value = initial

\* C24: the caches of a highlighter are never empty, and no
\* expect("Caches must not be empty") of highlight_line fails.
C24_CachesNeverEmpty == Len(hl.caches) >= 1 /\ ~hl.panic

\* change_line for a line of the first block has truncated the caches to
\* none and pushed a fresh parser
C24_Witness ==
    /\ hl.op = "change_line"
    /\ hl.arg < LINES_PER_SNAPSHOT
    /\ hl.caches = <<FreshParser(hl.syntax)>>
    /\ hl.current_line = 0

\* C25: change_line(n) leaves the current line at n or before it, and the
\* parser that highlights the next line has parsed exactly current_line()
\* lines since it was made fresh for the highlighter's syntax.
C25_CacheCoherent ==
    /\ hl.op = "change_line" => hl.current_line <= hl.arg
    /\ Len(hl.caches) >= 1 =>
          hl.caches[Len(hl.caches)] =
              [syntax |-> hl.syntax, lines |-> hl.current_line,
               stack |-> hl.current_line]

====
